---- MODULE Spec2Model ----
(***************************************************************************)
(* A model of micrograd-rust: the scalar autograd engine                   *)
(* (engine/src/value.rs), the network built on it (engine/src/lib.rs) and  *)
(* the two programs that drive them (examples/computation_graph.rs and     *)
(* src/main.rs).                                                           *)
(*                                                                         *)
(* Numbers.  The engine computes in f64.  The model computes in dyadic     *)
(* rationals <<n, e>> (the number n / 2^e, with e = 0 or n odd): these are *)
(* exactly the values an f64 holds, and f64 +, * and powf with a small     *)
(* whole exponent are exact on them while the mantissa stays below 2^53,   *)
(* which every value of the bounded model does.  Rounding, infinities and  *)
(* NaN are outside the model.                                              *)
(*                                                                         *)
(* Nodes.  A Value is an Rc<RefCell<ValueData>>; its identity is the       *)
(* address of the cell.  The model keeps every cell in an arena, `nodes`,  *)
(* and a Value is the index of its cell.                                   *)
(***************************************************************************)
EXTENDS Integers, Sequences, FiniteSets, TLC

VARIABLES
    nodes,   \* the arena: nodes[i] = [data, grad, op, exp, prev] is cell i
    pc,      \* "idle", or "sweep" inside Value::backward's loop
    order,   \* the reversed topological order of the running backward
    pos,     \* how many nodes of `order` the loop has processed
    call,    \* the name of the client's last call
    ret,     \* the last forward call: its input x, whether it returned, its output
    net,     \* the MLP: a sequence of layers, each a sequence of neurons
    env,     \* the nodes the running program holds by name
    prog,    \* the client program and where it stands
    hist     \* history (not program state): what the claims speak about

vars == <<nodes, pc, order, pos, call, ret, net, env, prog, hist>>

----------------------------------------------------------------------------
(* Bounds of the model *)

\* nodes the unscripted client creates
MaxNodes == 3
\* backward calls of the unscripted client
MaxBackward == 2
\* the largest mantissa the unscripted client lets a value reach
MaxMagnitude == 64

\* epochs of the training loop of src/main.rs that the model runs
Epochs == 2
\* the longest input the network client passes to MLP::forward
MaxInputLen == 3

\* leaf values, exponents and learning rates the free client draws from
\* (<<1, 1>> is 1/2)
LeafValues == {<<-1, 0>>, <<0, 0>>, <<2, 0>>}
Exponents == {2}
LearningRates == {<<1, 1>>, <<1, 0>>}

\* examples/computation_graph.rs: the leaf values of its three examples,
\* each set holding the value the program uses (2, 3, 1.5, 3) among others
InputsA == {<<2, 0>>, <<-1, 0>>}
InputsB == {<<3, 0>>}
InputsX == {<<-1, 0>>, <<0, 0>>, <<1, 1>>, <<1, 0>>, <<3, 1>>, <<2, 0>>}
InputsX3 == {<<3, 0>>, <<-2, 0>>}

\* src/main.rs: MLP::new(2, &[16, 16, 1]), here with one neuron per layer
NetIn == 2
NetWidths == <<1, 1>>
\* values of rand::random::<f64>() * 2.0 - 1.0, which lies in [-1, 1)
WeightValues == {<<-1, 0>>, <<-1, 1>>, <<1, 1>>}
\* src/main.rs: xs and ys
TrainXs == << <<<<0, 0>>, <<0, 0>>>>, <<<<0, 0>>, <<1, 0>>>>,
              <<<<1, 0>>, <<0, 0>>>>, <<<<1, 0>>, <<1, 0>>>> >>
TrainYs == << <<0, 0>>, <<1, 0>>, <<1, 0>>, <<2, 0>> >>

----------------------------------------------------------------------------
(* f64 on dyadic rationals *)

RECURSIVE Pow2(_)
Pow2(k) == IF k = 0 THEN 1 ELSE 2 * Pow2(k - 1)

RECURSIVE Norm(_, _)
Norm(n, e) == IF e > 0 /\ n % 2 = 0 THEN Norm(n \div 2, e - 1) ELSE <<n, e>>

Zero == <<0, 0>>
One == <<1, 0>>
FInt(k) == <<k, 0>>

FAdd(x, y) ==
    LET m == IF x[2] > y[2] THEN x[2] ELSE y[2]
    IN  Norm(x[1] * Pow2(m - x[2]) + y[1] * Pow2(m - y[2]), m)

FMul(x, y) == Norm(x[1] * y[1], x[2] + y[2])

FSub(x, y) == FAdd(x, FMul(y, FInt(-1)))

\* x > 0.0
FPos(x) == x[1] > 0

\* f64::max(x, 0.0)
FMax0(x) == IF FPos(x) THEN x ELSE Zero

\* f64::powf(x, k) for a whole exponent k >= 0 (powf(x, 0) is 1 for every x)
RECURSIVE FPow(_, _)
FPow(x, k) == IF k = 0 THEN One ELSE FMul(x, FPow(x, k - 1))

----------------------------------------------------------------------------
(* engine/src/value.rs: the graph builder.  Each operator takes the arena  *)
(* and returns the arena with the new cell appended; the new Value is      *)
(* Len of the result.                                                      *)

Ids(g) == 1 .. Len(g)

ValueNew(g, data) ==
    Append(g, [data |-> data, grad |-> Zero, op |-> "leaf", exp |-> 0, prev |-> <<>>])

ValuePow(g, a, exponent) ==
    Append(g, [data |-> FPow(g[a].data, exponent), grad |-> Zero,
               op |-> "pow", exp |-> exponent, prev |-> <<a>>])

ValueRelu(g, a) ==
    Append(g, [data |-> FMax0(g[a].data), grad |-> Zero,
               op |-> "relu", exp |-> 0, prev |-> <<a>>])

ValueAdd(g, a, b) ==
    Append(g, [data |-> FAdd(g[a].data, g[b].data), grad |-> Zero,
               op |-> "add", exp |-> 0, prev |-> <<a, b>>])

ValueMul(g, a, b) ==
    Append(g, [data |-> FMul(g[a].data, g[b].data), grad |-> Zero,
               op |-> "mul", exp |-> 0, prev |-> <<a, b>>])

\* Mul<f64> for Value: self * Value::new(other)
ValueMulF(g, a, other) == ValueMul(ValueNew(g, other), a, Len(g) + 1)

\* Sub for Value: self + (other * -1.0); the product is the second new cell
ValueSub(g, a, b) == ValueAdd(ValueMulF(g, b, FInt(-1)), a, Len(g) + 2)

----------------------------------------------------------------------------
(* engine/src/value.rs: Op::backward *)

ReluGateAtZero(input_data, out_grad) ==
    IF input_data[1] >= 0 THEN out_grad ELSE Zero

ReluGate(input_data, out_grad) ==
    IF FPos(input_data) THEN out_grad ELSE Zero

MulGradsSwapped(out_grad, left, right) ==
    <<FMul(out_grad, left), FMul(out_grad, right)>>

MulGrads(out_grad, left, right) ==
    <<FMul(out_grad, right), FMul(out_grad, left)>>

OpBackward(g, op, exponent, out_grad, inputs) ==
    CASE op = "add" -> <<out_grad, out_grad>>
      [] op = "mul" -> MulGrads(out_grad, g[inputs[1]].data, g[inputs[2]].data)
      [] op = "pow" ->
            <<FMul(FMul(out_grad, FInt(exponent)),
                   FPow(g[inputs[1]].data, exponent - 1))>>
      [] op = "relu" -> <<ReluGate(g[inputs[1]].data, out_grad)>>

----------------------------------------------------------------------------
(* engine/src/value.rs: Value::build_topo and Value::backward *)

RECURSIVE BuildTopo(_, _, _)
RECURSIVE VisitParents(_, _, _, _)

\* the loop over node._prev, from its i-th parent on
VisitParents(g, parents, i, st) ==
    IF i > Len(parents) THEN st
    ELSE VisitParents(g, parents, i + 1, BuildTopo(g, parents[i], st))

BuildTopoByValue(g, node, st) ==
    IF \E v \in st.visited : g[v].data = g[node].data THEN st
    ELSE LET st1 == [st EXCEPT !.visited = @ \cup {node}]
             st2 == VisitParents(g, g[node].prev, 1, st1)
         IN  [st2 EXCEPT !.topo = Append(@, node)]

\* st = [visited, topo]: the visited set of cell addresses and the list
BuildTopo(g, node, st) ==
    IF node \in st.visited THEN st
    ELSE LET st1 == [st EXCEPT !.visited = @ \cup {node}]
             st2 == VisitParents(g, g[node].prev, 1, st1)
         IN  [st2 EXCEPT !.topo = Append(@, node)]

Reverse(s) == [i \in 1 .. Len(s) |-> s[Len(s) + 1 - i]]

\* lines 89-92: the order the loop of backward runs over
TopoOrder(g, root) ==
    Reverse(BuildTopo(g, root, [visited |-> {}, topo |-> <<>>]).topo)

GradOverwrite(cur, grad) == grad

\* line 100: parent.grad += *grad
GradAccumulate(cur, grad) == FAdd(cur, grad)

\* lines 99-101: the loop over parents.iter().zip(input_grads.iter())
RECURSIVE PushGrads(_, _, _, _)
PushGrads(g, parents, input_grads, i) ==
    IF i > Len(parents) \/ i > Len(input_grads) THEN g
    ELSE PushGrads(
            [g EXCEPT ![parents[i]].grad = GradAccumulate(@, input_grads[i])],
            parents, input_grads, i + 1)

\* lines 95-103: the body of the loop for one node of the order
SweepNode(g, node) ==
    IF g[node].op = "leaf" THEN g
    ELSE LET out_grad == g[node].grad
             input_grads == OpBackward(g, g[node].op, g[node].exp, out_grad, g[node].prev)
         IN  PushGrads(g, g[node].prev, input_grads, 1)

SeedRootAdd(g, root) == [g EXCEPT ![root].grad = FAdd(@, One)]

\* line 88: self.grad = 1.0
SeedRoot(g, root) == [g EXCEPT ![root].grad = One]

----------------------------------------------------------------------------
(* engine/src/value.rs: set_data, update, zero_grad on one cell *)

SetDataAndClearGrad(g, n, val) == [g EXCEPT ![n].data = val, ![n].grad = Zero]

SetDataPropagate(g, n, val) ==
    LET g1 == [g EXCEPT ![n].data = val]
    IN  [i \in 1 .. Len(g) |->
            IF \E j \in 1 .. Len(g[i].prev) : g[i].prev[j] = n
            THEN [g1[i] EXCEPT !.data =
                    IF g[i].op = "add" THEN FAdd(g1[g[i].prev[1]].data, g1[g[i].prev[2]].data)
                    ELSE IF g[i].op = "mul" THEN FMul(g1[g[i].prev[1]].data, g1[g[i].prev[2]].data)
                    ELSE IF g[i].op = "pow" THEN FPow(g1[g[i].prev[1]].data, g[i].exp)
                    ELSE FMax0(g1[g[i].prev[1]].data)]
            ELSE g1[i]]

\* lines 126-128
SetData(g, n, val) == [g EXCEPT ![n].data = val]

\* lines 130-134
Update(g, n, learning_rate) ==
    LET grad == g[n].grad
        new_val == FSub(g[n].data, FMul(learning_rate, grad))
    IN  SetData(g, n, new_val)

ZeroGradSkipped(g, n) == g

\* lines 136-138
ZeroGrad(g, n) == [g EXCEPT ![n].grad = Zero]

----------------------------------------------------------------------------
(* engine/src/lib.rs.  A neuron is [weights, bias, activation], a layer a  *)
(* sequence of neurons, the MLP a sequence of layers.  The constructors    *)
(* take the random values they draw as the sequence ws and return what is  *)
(* left of it.                                                             *)

\* Neuron::new, the loop of lines 14-16 from its i-th round on
RECURSIVE NeuronWeights(_, _, _, _, _)
NeuronWeights(g, nin, i, ws, weights) ==
    IF i > nin THEN [g |-> g, weights |-> weights, ws |-> ws]
    ELSE NeuronWeights(ValueNew(g, Head(ws)), nin, i + 1, Tail(ws),
                       Append(weights, Len(g) + 1))

NeuronNew(g, nin, activation, ws) ==
    LET w == NeuronWeights(g, nin, 1, ws, <<>>)
        g1 == ValueNew(w.g, Zero)
    IN  [g |-> g1, ws |-> w.ws,
         neuron |-> [weights |-> w.weights, bias |-> Len(g1), activation |-> activation]]

\* Layer::new, the loop of lines 54-56 from its i-th round on
RECURSIVE LayerNeurons(_, _, _, _, _, _, _)
LayerNeurons(g, nin, nout, activation, i, ws, neurons) ==
    IF i > nout THEN [g |-> g, ws |-> ws, layer |-> neurons]
    ELSE LET n == NeuronNew(g, nin, activation, ws)
         IN  LayerNeurons(n.g, nin, nout, activation, i + 1, n.ws, Append(neurons, n.neuron))

LayerNew(g, nin, nout, activation, ws) ==
    LayerNeurons(g, nin, nout, activation, 1, ws, <<>>)

\* MLP::new, the loop of lines 87-92 from its i-th round on
RECURSIVE MLPLayers(_, _, _, _, _, _)
MLPLayers(g, in_size, nouts, i, ws, layers) ==
    IF i > Len(nouts) THEN [g |-> g, mlp |-> layers]
    ELSE LET l == LayerNew(g, in_size, nouts[i], i < Len(nouts), ws)
         IN  MLPLayers(l.g, nouts[i], nouts, i + 1, l.ws, Append(layers, l.layer))

MLPNew(g, nin, nouts, ws) == MLPLayers(g, nin, nouts, 1, ws, <<>>)

\* Neuron::forward, the loop of lines 23-25 from its i-th pair on: zip ends
\* with the shorter of weights and x.  A round appends the product and then
\* the sum, which is the new act.
RECURSIVE NeuronSum(_, _, _, _, _)
NeuronSum(g, weights, x, i, act) ==
    IF i > Len(weights) \/ i > Len(x) THEN [g |-> g, out |-> act]
    ELSE NeuronSum(ValueAdd(ValueMul(g, weights[i], x[i]), act, Len(g) + 1),
                   weights, x, i + 1, Len(g) + 2)

\* Neuron::forward, lines 26-30, s being the graph and act after the loop
NeuronActivate(neuron, s) ==
    IF neuron.activation
    THEN [g |-> ValueRelu(s.g, s.out), out |-> Len(s.g) + 1]
    ELSE s

NeuronForward(g, neuron, x) ==
    NeuronActivate(neuron, NeuronSum(g, neuron.weights, x, 1, neuron.bias))

\* Layer::forward, from its i-th neuron on; n is what the (i-1)-th returned
RECURSIVE LayerOuts(_, _, _, _, _)
RECURSIVE LayerCollect(_, _, _, _, _)
LayerOuts(n, layer, x, i, outs) ==
    IF i > Len(layer) THEN [g |-> n.g, out |-> outs]
    ELSE LayerCollect(NeuronForward(n.g, layer[i], x), layer, x, i, outs)

LayerCollect(n, layer, x, i, outs) ==
    LayerOuts(n, layer, x, i + 1, Append(outs, n.out))

LayerForward(g, layer, x) == LayerOuts([g |-> g], layer, x, 1, <<>>)

\* MLP::forward, the loop of lines 98-100 from its i-th layer on, out being
\* the graph and the output of the layer before
RECURSIVE MLPOuts(_, _, _)
MLPOuts(out, mlp, i) ==
    IF i > Len(mlp) THEN out
    ELSE MLPOuts(LayerForward(out.g, mlp[i], out.out), mlp, i + 1)

MLPForward(g, mlp, x) == MLPOuts([g |-> g, out |-> x], mlp, 1)

\* Neuron::parameters
NeuronParameters(neuron) == Append(neuron.weights, neuron.bias)

\* Layer::parameters, from its i-th neuron on
RECURSIVE LayerParameters(_, _)
LayerParameters(layer, i) ==
    IF i > Len(layer) THEN <<>>
    ELSE NeuronParameters(layer[i]) \o LayerParameters(layer, i + 1)

\* MLP::parameters, from its i-th layer on
RECURSIVE MLPParametersFrom(_, _)
MLPParametersFrom(mlp, i) ==
    IF i > Len(mlp) THEN <<>>
    ELSE LayerParameters(mlp[i], 1) \o MLPParametersFrom(mlp, i + 1)

MLPParameters(mlp) == MLPParametersFrom(mlp, 1)

\* zero_grad on the cells ps[i], ps[i + 1], ...
RECURSIVE ZeroGradEach(_, _, _)
ZeroGradEach(g, ps, i) ==
    IF i > Len(ps) THEN g ELSE ZeroGradEach(ZeroGrad(g, ps[i]), ps, i + 1)

NeuronZeroGradWeightsOnly(g, neuron) == ZeroGradEach(g, neuron.weights, 1)

\* Neuron::zero_grad
NeuronZeroGrad(g, neuron) ==
    ZeroGrad(ZeroGradEach(g, neuron.weights, 1), neuron.bias)

\* Layer::zero_grad, from its i-th neuron on
RECURSIVE LayerZeroGrad(_, _, _)
LayerZeroGrad(g, layer, i) ==
    IF i > Len(layer) THEN g
    ELSE LayerZeroGrad(NeuronZeroGrad(g, layer[i]), layer, i + 1)

\* MLP::zero_grad, from its i-th layer on
RECURSIVE MLPZeroGradFrom(_, _, _)
MLPZeroGradFrom(g, mlp, i) ==
    IF i > Len(mlp) THEN g
    ELSE MLPZeroGradFrom(LayerZeroGrad(g, mlp[i], 1), mlp, i + 1)

MLPZeroGrad(g, mlp) == MLPZeroGradFrom(g, mlp, 1)

\* how many random values MLP::new(nin, nouts) draws, from layer i on
RECURSIVE NumWeights(_, _, _)
NumWeights(in_size, nouts, i) ==
    IF i > Len(nouts) THEN 0
    ELSE in_size * nouts[i] + NumWeights(nouts[i], nouts, i + 1)

----------------------------------------------------------------------------
(* src/main.rs *)

\* lines 9-21: the leaves of xs, sample by sample, then those of ys
RECURSIVE NewLeaves(_, _, _)
NewLeaves(g, vals, i) ==
    IF i > Len(vals) THEN g ELSE NewLeaves(ValueNew(g, vals[i]), vals, i + 1)

RECURSIVE Flatten(_, _)
Flatten(ss, i) == IF i > Len(ss) THEN <<>> ELSE ss[i] \o Flatten(ss, i + 1)

TrainWidth == Len(TrainXs[1])

\* the cells of xs[k] and ys[k] when the leaves follow `base` earlier cells
XsOf(base, k) == [j \in 1 .. TrainWidth |-> base + (k - 1) * TrainWidth + j]
YOf(base, k) == base + Len(TrainXs) * TrainWidth + k

\* lines 37-42: pred = mlp.forward(x); diff = pred[0] - y; loss = diff * diff
\* (Sub appends three cells, the last of them diff)
LossOf(f, y) ==
    [g |-> ValueMul(ValueSub(f.g, f.out[1], y), Len(f.g) + 3, Len(f.g) + 3),
     out |-> f.out,
     loss |-> Len(f.g) + 4]

ForwardLoss(g, mlp, x, y) == LossOf(MLPForward(g, mlp, x), y)

\* lines 59-62: param.update(learning_rate) for each parameter, from ps[i] on
RECURSIVE UpdateEach(_, _, _, _)
UpdateEach(g, ps, learning_rate, i) ==
    IF i > Len(ps) THEN g
    ELSE UpdateEach(Update(g, ps[i], learning_rate), ps, learning_rate, i + 1)

----------------------------------------------------------------------------
(* examples/computation_graph.rs *)

\* lines 10-16: a, b, mul = a * b, pow = a.pow(3.0), f = mul + pow
Example1(g, a_val, b_val) ==
    LET a == Len(g) + 1
        b == Len(g) + 2
        mul == Len(g) + 3
        pow == Len(g) + 4
    IN  [g |-> ValueAdd(ValuePow(ValueMul(ValueNew(ValueNew(g, a_val), b_val), a, b), a, 3),
                        mul, pow),
         a |-> a, b |-> b, x |-> 0, shifted |-> 0, f |-> Len(g) + 5]

\* lines 33-39: x, two_x = x * Value::new(2.0), shifted = two_x - Value::new(1.0),
\* activated = shifted.relu(), f2 = activated.pow(2.0)
Example2(g, x_val) ==
    LET x == Len(g) + 1
        two == Len(g) + 2
        two_x == Len(g) + 3
        one == Len(g) + 4
        shifted == Len(g) + 7
        activated == Len(g) + 8
    IN  [g |-> ValuePow(ValueRelu(ValueSub(ValueNew(ValueMul(ValueNew(ValueNew(g, x_val),
                                                                       FInt(2)),
                                                              x, two),
                                                     One),
                                            two_x, one),
                                   shifted),
                         activated, 2),
         a |-> 0, b |-> 0, x |-> x, shifted |-> shifted, f |-> Len(g) + 9]

\* lines 56-61: x, x_squared = x * x, x_squared_plus_x = x_squared + x,
\* f3 = x_squared_plus_x + Value::new(1.0)
Example3(g, x_val) ==
    LET x == Len(g) + 1
        x_squared == Len(g) + 2
        x_squared_plus_x == Len(g) + 3
        one == Len(g) + 4
    IN  [g |-> ValueAdd(ValueNew(ValueAdd(ValueMul(ValueNew(g, x_val), x, x), x_squared, x),
                                 One),
                        x_squared_plus_x, one),
         a |-> 0, b |-> 0, x |-> x, shifted |-> 0, f |-> Len(g) + 5]

----------------------------------------------------------------------------
(* History kept beside the program state, for the claims to speak about.  *)
(*   born     born[i]: the operands' data when cell i was created         *)
(*   touched  the cells whose data set_data or update has overwritten     *)
(*   pass     the running or last backward: its root, every cell's grad   *)
(*            when it was called, the cells zeroed since the one before   *)
(*   before   the pass of the call just before, when that call was a      *)
(*            backward too (root 0 otherwise)                             *)
(*   first    per root, the grads the first backward from an all-zero     *)
(*            graph left, while no data has been overwritten since        *)
(*   zeroed   the cells zero_grad was called on since the last backward   *)
(*   batch    the roots backward ran on since the last MLP::zero_grad     *)

NoPass == [root |-> 0, pre |-> <<>>, zeroed |-> {}]

NoHist ==
    [born |-> <<>>, touched |-> {}, pass |-> NoPass, before |-> NoPass,
     first |-> {}, zeroed |-> {}, batch |-> <<>>]

Grads(g) == [i \in 1 .. Len(g) |-> g[i].grad]

\* born, extended to the cells of g that it does not cover yet
Born(g, born) ==
    [i \in 1 .. Len(g) |->
        IF i <= Len(born) THEN born[i]
        ELSE [j \in 1 .. Len(g[i].prev) |-> g[g[i].prev[j]].data]]

\* the cells reachable from root through the operand lists
RECURSIVE Reach(_, _)
ReachAll(g, s) == UNION {Reach(g, p) : p \in s}
Reach(g, root) ==
    {root} \cup ReachAll(g, {g[root].prev[j] : j \in 1 .. Len(g[root].prev)})

\* every cell reachable from p.root had grad 0 when the pass p was called
Clean(g, p) == p.root # 0 /\ \A n \in Reach(g, p.root) : p.pre[n] = Zero

BuildOps == {"new", "add", "mul", "pow", "relu"}

----------------------------------------------------------------------------
(* The clients.  "free" is any program that uses the engine, within the   *)
(* bounds.                                                                *)

Clients == {"free", "graph", "train", "net"}

\* |x| is within the magnitude the free client keeps
Small(x) == x[1] <= MaxMagnitude /\ -x[1] <= MaxMagnitude

\* The free client builds a graph, then differentiates the value it built
\* last, MaxBackward times, and between the first and the second backward
\* either zeroes gradients, or overwrites one value, or does nothing.
\*   prog.step  0 while it builds, 1 from its first backward on
\*   prog.k     since the first backward: 0 nothing, 1 zero_grad, 2 a new value
FreePermit(op, n) ==
    CASE op \in BuildOps -> prog.step = 0 /\ Len(nodes) < MaxNodes
      [] op = "backward" -> prog.nback < MaxBackward /\ n = Len(nodes)
      [] op \in {"set_data", "update"} -> prog.nback = 1 /\ prog.k = 0
      [] op = "zero_grad" -> prog.nback = 1 /\ prog.k \in {0, 1}
      [] OTHER -> FALSE

FreeAdvance(op) ==
    CASE op \in BuildOps -> prog
      [] op = "backward" -> [prog EXCEPT !.nback = @ + 1, !.step = 1]
      [] op \in {"set_data", "update"} -> [prog EXCEPT !.k = 2]
      [] OTHER -> [prog EXCEPT !.k = 1]

\* examples/computation_graph.rs, main: prog.step counts its calls: the
\* three examples are built at steps 0, 2 and 4 and differentiated at 1, 3, 5
GraphPermit(op, n) ==
    CASE op = "example" -> prog.step \in {0, 2, 4}
      [] op = "backward" -> prog.step \in {1, 3, 5} /\ n = env.f
      [] OTHER -> FALSE

\* src/main.rs, main: the loop of lines 30-80, Epochs times round.
\*   prog.step  0 before mlp.zero_grad(), 1 before the forward pass of sample
\*              prog.k, 2 before its loss.backward(), 3 before the updates,
\*              4 when the epochs are over
TrainPermit(op, n) ==
    CASE op = "mlp_zero_grad" -> prog.step = 0
      [] op = "forward_loss" -> prog.step = 1
      [] op = "backward" -> prog.step = 2 /\ n = env.f
      [] op = "update_params" -> prog.step = 3
      [] OTHER -> FALSE

TrainAdvance(op) ==
    CASE op = "mlp_zero_grad" -> [prog EXCEPT !.step = 1, !.k = 1]
      [] op = "forward_loss" -> [prog EXCEPT !.step = 2]
      [] op = "backward" ->
            IF prog.k < Len(TrainXs)
            THEN [prog EXCEPT !.step = 1, !.k = @ + 1, !.nback = @ + 1]
            ELSE [prog EXCEPT !.step = 3, !.nback = @ + 1]
      [] op = "update_params" ->
            [prog EXCEPT !.epoch = @ + 1, !.step = IF prog.epoch + 1 < Epochs THEN 0 ELSE 4]
      [] OTHER -> prog

\* The network client calls MLP::forward once, on an input of any length up
\* to MaxInputLen, and then differentiates the first output.
NetPermit(op, n) ==
    CASE op = "forward" -> prog.step = 0
      [] op = "backward" -> prog.step = 1 /\ ret.out # <<>> /\ n = ret.out[1]
      [] OTHER -> FALSE

\* whether the client may now call op on node n
Permit(op, n) ==
    /\ pc = "idle"
    /\ CASE prog.client = "free" -> FreePermit(op, n)
         [] prog.client = "graph" -> GraphPermit(op, n)
         [] prog.client = "train" -> TrainPermit(op, n)
         [] prog.client = "net" -> NetPermit(op, n)

\* where the client stands after calling op
Advance(op) ==
    CASE prog.client = "free" -> FreeAdvance(op)
      [] prog.client = "train" -> TrainAdvance(op)
      [] OTHER -> [prog EXCEPT !.step = @ + 1]

InitProg(client) == [client |-> client, step |-> 0, k |-> 0, epoch |-> 0, nback |-> 0]

NoEnv == [a |-> 0, b |-> 0, x |-> 0, shifted |-> 0, f |-> 0, base |-> 0, rate |-> Zero]

\* a program that has built nothing yet
InitEmpty(client) ==
    /\ nodes = <<>>
    /\ net = <<>>
    /\ env = NoEnv
    /\ prog = InitProg(client)
    /\ hist = NoHist

\* src/main.rs lines 6-24: the MLP, the leaves of xs and ys, the rate
InitNet(client, ws, learning_rate) ==
    LET m == MLPNew(<<>>, NetIn, NetWidths, ws)
        g == NewLeaves(NewLeaves(m.g, Flatten(TrainXs, 1), 1), TrainYs, 1)
    IN  /\ nodes = g
        /\ net = m.mlp
        /\ env = [NoEnv EXCEPT !.base = Len(m.g), !.rate = learning_rate]
        /\ prog = InitProg(client)
        /\ hist = [NoHist EXCEPT !.born = Born(g, <<>>)]

Init ==
    /\ pc = "idle"
    /\ order = <<>>
    /\ pos = 0
    /\ call = "none"
    /\ ret = [x |-> <<>>, ok |-> TRUE, out |-> <<>>]
    /\ \/ InitEmpty("free")
       \/ InitEmpty("graph")
       \/ \E ws \in [1 .. NumWeights(NetIn, NetWidths, 1) -> WeightValues] :
            \/ \E learning_rate \in LearningRates : InitNet("train", ws, learning_rate)
            \/ InitNet("net", ws, Zero)

----------------------------------------------------------------------------
(* Actions: one per call of the engine's interface *)

\* a call op that appends cells and changes nothing else
Built(op, g) ==
    /\ Permit(op, 0)
    /\ Small(g[Len(g)].data)
    /\ nodes' = g
    /\ call' = op
    /\ prog' = Advance(op)
    /\ hist' = [hist EXCEPT !.born = Born(g, @)]
    /\ UNCHANGED <<pc, order, pos, ret, net, env>>

New == \E data \in LeafValues : Built("new", ValueNew(nodes, data))

Add == \E a \in Ids(nodes), b \in Ids(nodes) : Built("add", ValueAdd(nodes, a, b))

Mul == \E a \in Ids(nodes), b \in Ids(nodes) : Built("mul", ValueMul(nodes, a, b))

Pow ==
    \E a \in Ids(nodes), exponent \in Exponents :
        Built("pow", ValuePow(nodes, a, exponent))

Relu == \E a \in Ids(nodes) : Built("relu", ValueRelu(nodes, a))

\* Value::backward, lines 88-92: seed the root, build and reverse the order
BackwardStart(root) ==
    /\ Permit("backward", root)
    /\ nodes' = SeedRoot(nodes, root)
    /\ order' = TopoOrder(nodes, root)
    /\ pos' = 0
    /\ pc' = "sweep"
    /\ call' = "backward"
    /\ prog' = Advance("backward")
    /\ hist' = [hist EXCEPT
                    !.before = hist.pass,
                    !.pass = [root |-> root, pre |-> Grads(nodes), zeroed |-> hist.zeroed],
                    !.zeroed = {}]
    /\ UNCHANGED <<ret, net, env>>

\* Value::backward, lines 94-104: one iteration of the loop
BackwardStep ==
    /\ pc = "sweep"
    /\ pos < Len(order)
    /\ nodes' = SweepNode(nodes, order[pos + 1])
    /\ pos' = pos + 1
    /\ pc' = IF pos + 1 = Len(order) THEN "idle" ELSE "sweep"
    /\ hist' = IF pos + 1 = Len(order)
               THEN [hist EXCEPT
                        !.batch = Append(@, hist.pass.root),
                        !.first =
                            IF Clean(nodes, hist.pass)
                               /\ \A f \in hist.first : f.root # hist.pass.root
                            THEN @ \cup {[root |-> hist.pass.root, grads |-> Grads(nodes')]}
                            ELSE @]
               ELSE hist
    /\ UNCHANGED <<order, call, ret, net, env, prog>>

SetDataCall(n, val) ==
    /\ Permit("set_data", n)
    /\ nodes' = SetData(nodes, n, val)
    /\ call' = "set_data"
    /\ prog' = Advance("set_data")
    /\ hist' = [hist EXCEPT !.touched = @ \cup {n}, !.first = {}, !.pass = NoPass]
    /\ UNCHANGED <<pc, order, pos, ret, net, env>>

UpdateCall(n, learning_rate) ==
    /\ Permit("update", n)
    /\ Small(Update(nodes, n, learning_rate)[n].data)
    /\ nodes' = Update(nodes, n, learning_rate)
    /\ call' = "update"
    /\ prog' = Advance("update")
    /\ hist' = [hist EXCEPT !.touched = @ \cup {n}, !.first = {}, !.pass = NoPass]
    /\ UNCHANGED <<pc, order, pos, ret, net, env>>

ZeroGradCall(n) ==
    /\ Permit("zero_grad", n)
    /\ nodes' = ZeroGrad(nodes, n)
    /\ call' = "zero_grad"
    /\ prog' = Advance("zero_grad")
    /\ hist' = [hist EXCEPT !.zeroed = @ \cup {n}, !.pass = NoPass]
    /\ UNCHANGED <<pc, order, pos, ret, net, env>>

\* examples/computation_graph.rs: the lines that build the example e
ExampleBuilt(e) ==
    /\ Permit("example", 0)
    /\ nodes' = e.g
    /\ env' = [env EXCEPT !.a = e.a, !.b = e.b, !.x = e.x, !.shifted = e.shifted, !.f = e.f]
    /\ call' = "example"
    /\ prog' = Advance("example")
    /\ hist' = [hist EXCEPT !.born = Born(e.g, @), !.pass = NoPass]
    /\ UNCHANGED <<pc, order, pos, ret, net>>

Example1Build ==
    /\ prog.step = 0
    /\ \E a_val \in InputsA, b_val \in InputsB : ExampleBuilt(Example1(nodes, a_val, b_val))

Example2Build ==
    /\ prog.step = 2
    /\ \E x_val \in InputsX : ExampleBuilt(Example2(nodes, x_val))

Example3Build ==
    /\ prog.step = 4
    /\ \E x_val \in InputsX3 : ExampleBuilt(Example3(nodes, x_val))

\* what a forward pass f on the input x leaves behind
Forwarded(op, x, f) ==
    /\ Permit(op, 0)
    /\ nodes' = f.g
    /\ ret' = [x |-> x, ok |-> TRUE, out |-> f.out]
    /\ call' = op
    /\ prog' = Advance(op)
    /\ hist' = [hist EXCEPT !.born = Born(f.g, @), !.pass = NoPass]
    /\ UNCHANGED <<pc, order, pos, net>>

\* MLP::forward, called by the network client on the input x
MLPForwardCall(x) ==
    /\ Forwarded("forward", x, MLPForward(nodes, net, x))
    /\ UNCHANGED env

\* src/main.rs line 34: mlp.zero_grad()
MLPZeroGradCall ==
    /\ Permit("mlp_zero_grad", 0)
    /\ nodes' = MLPZeroGrad(nodes, net)
    /\ call' = "mlp_zero_grad"
    /\ prog' = Advance("mlp_zero_grad")
    /\ hist' = [hist EXCEPT
                    !.zeroed = @ \cup {MLPParameters(net)[i] : i \in 1 .. Len(MLPParameters(net))},
                    !.pass = NoPass,
                    !.batch = <<>>]
    /\ UNCHANGED <<pc, order, pos, ret, net, env>>

\* src/main.rs lines 37-44: the forward pass and the loss of sample prog.k
ForwardLossCall ==
    /\ Forwarded("forward_loss", XsOf(env.base, prog.k),
                 ForwardLoss(nodes, net, XsOf(env.base, prog.k), YOf(env.base, prog.k)))
    /\ env' = [env EXCEPT !.f = Len(nodes')]

\* src/main.rs lines 59-62: the update of every parameter
UpdateParamsCall ==
    LET ps == MLPParameters(net) IN
    /\ Permit("update_params", 0)
    /\ nodes' = UpdateEach(nodes, ps, env.rate, 1)
    /\ call' = "update_params"
    /\ prog' = Advance("update_params")
    /\ hist' = [hist EXCEPT
                    !.touched = @ \cup {ps[i] : i \in 1 .. Len(ps)},
                    !.first = {},
                    !.pass = NoPass]
    /\ UNCHANGED <<pc, order, pos, ret, net, env>>

\* the inputs the network client may pass: the leaves of xs[2], in any
\* order and number up to MaxInputLen
NetInputs ==
    UNION {[1 .. len -> {XsOf(env.base, 2)[j] : j \in 1 .. TrainWidth}] : len \in 0 .. MaxInputLen}

Next ==
    \/ New
    \/ Add
    \/ Mul
    \/ Pow
    \/ Relu
    \/ \E root \in Ids(nodes) : BackwardStart(root)
    \/ BackwardStep
    \/ \E n \in Ids(nodes), val \in LeafValues : SetDataCall(n, val)
    \/ \E n \in Ids(nodes), learning_rate \in LearningRates : UpdateCall(n, learning_rate)
    \/ \E n \in Ids(nodes) : ZeroGradCall(n)
    \/ Example1Build
    \/ Example2Build
    \/ Example3Build
    \/ prog.client = "net" /\ \E x \in NetInputs : MLPForwardCall(x)
    \/ MLPZeroGradCall
    \/ ForwardLossCall
    \/ UpdateParamsCall

Spec == Init /\ [][Next]_vars

FairSpec == Spec /\ WF_vars(BackwardStep)

----------------------------------------------------------------------------
(* What the claims are stated with.  The local-gradient rules below are   *)
(* the table of section 4.1 of the specification, written from the table  *)
(* and not from Op::backward, so that the two can disagree.               *)

\* d(c) / d(its i-th operand), at the operands' values in g
LocalRule(g, c, i) ==
    LET a == g[c].prev[1] IN
    CASE g[c].op = "add" -> One
      [] g[c].op = "mul" -> IF i = 1 THEN g[g[c].prev[2]].data ELSE g[a].data
      [] g[c].op = "pow" -> FMul(FInt(g[c].exp), FPow(g[a].data, g[c].exp - 1))
      [] g[c].op = "relu" -> IF FPos(g[a].data) THEN One ELSE Zero

\* the forward value of an operation on operand values vs
OpForward(op, exponent, vs) ==
    CASE op = "add" -> FAdd(vs[1], vs[2])
      [] op = "mul" -> FMul(vs[1], vs[2])
      [] op = "pow" -> FPow(vs[1], exponent)
      [] op = "relu" -> FMax0(vs[1])

\* t[1] + ... + t[i]
RECURSIVE FSumTo(_, _)
FSumTo(t, i) == IF i = 0 THEN Zero ELSE FAdd(FSumTo(t, i - 1), t[i])

FSum(t) == FSumTo(t, Len(t))

\* the sum of t[k] over the k in S
RECURSIVE FSumOver(_, _)
FSumOver(S, t) ==
    IF S = {} THEN Zero
    ELSE LET k == CHOOSE k \in S : TRUE IN FAdd(t[k], FSumOver(S \ {k}, t))

Slots(g) == 1 .. 2 * Len(g)

\* the k-th use slot: operand position UseI(k) of cell UseC(k)
UseC(k) == (k + 1) \div 2
UseI(k) == 2 - (k % 2)

\* slot k holds n: n is the UseI(k)-th operand of cell UseC(k)
Holds(g, n, k) ==
    /\ UseI(k) <= Len(g[UseC(k)].prev)
    /\ g[UseC(k)].prev[UseI(k)] = n

\* slot k is a use of n by a cell of R
IsUse(g, R, n, k) == UseC(k) \in R /\ Holds(g, n, k)

\* the sum over the operand paths from root to n of the product of the
\* local-gradient rules along the path, R being the cells root reaches
RECURSIVE PathSum(_, _, _, _)
PathSum(g, R, root, n) ==
    IF n = root THEN One
    ELSE FSumOver({k \in Slots(g) : IsUse(g, R, n, k)},
                  [k \in Slots(g) |->
                    FMul(PathSum(g, R, root, UseC(k)), LocalRule(g, UseC(k), UseI(k)))])

\* the same sum with each path's product multiplied by the path's length
RECURSIVE PathLenSum(_, _, _, _)
PathLenSum(g, R, root, n) ==
    IF n = root THEN Zero
    ELSE FSumOver({k \in Slots(g) : IsUse(g, R, n, k)},
                  [k \in Slots(g) |->
                    FMul(FAdd(PathLenSum(g, R, root, UseC(k)), PathSum(g, R, root, UseC(k))),
                         LocalRule(g, UseC(k), UseI(k)))])

\* the sum over the uses of n by cells of R of the user's grad times the rule
UseSum(g, R, n) ==
    FSumOver({k \in Slots(g) : IsUse(g, R, n, k)},
             [k \in Slots(g) |-> FMul(g[UseC(k)].grad, LocalRule(g, UseC(k), UseI(k)))])

NumUses(g, R, n) == Cardinality({k \in Slots(g) : IsUse(g, R, n, k)})

Root == hist.pass.root
Reached == Reach(nodes, Root)

\* a backward call has returned and nothing was called since
Done == pc = "idle" /\ call = "backward"

\* ... and every reachable gradient was 0 when it was called
CleanDone == Done /\ Clean(nodes, hist.pass)

\* the cells that are parameters of the network
ParamSet == {MLPParameters(net)[i] : i \in 1 .. Len(MLPParameters(net))}

\* examples/computation_graph.rs has differentiated its k-th example
ExampleDone(k) == prog.client = "graph" /\ Done /\ prog.step = 2 * k

----------------------------------------------------------------------------
(* C1 *)

\* C1: after backward(root) on a graph whose gradients were all 0, every
\* node reachable from root holds the sum over the operand paths from root
\* of the products of the local-gradient rules, and root holds 1.
\* For f = a * b + a^3 at a = 2, b = 3 that is f = 14, 15 at a and 2 at b.
C1_ChainRule ==
    /\ CleanDone =>
        /\ nodes[Root].grad = One
        /\ \A n \in Reached : nodes[n].grad = PathSum(nodes, Reached, Root, n)
    /\ (ExampleDone(1) /\ nodes[env.a].data = FInt(2) /\ nodes[env.b].data = FInt(3)) =>
        /\ nodes[env.f].data = FInt(14)
        /\ nodes[env.a].grad = FInt(15)
        /\ nodes[env.b].grad = FInt(2)

\* a finished clean pass over f = a * b + a^3 at a = 2, b = 3: two levels of
\* derived nodes, and the leaf a has a nonzero gradient summed over two uses
C1_Witness ==
    /\ CleanDone
    /\ ExampleDone(1)
    /\ nodes[env.a].data = FInt(2) /\ nodes[env.b].data = FInt(3)
    /\ Root = env.f
    /\ NumUses(nodes, Reached, env.a) = 2
    /\ nodes[env.a].grad = FInt(15)
    /\ \E m \in Reached : m # Root /\ nodes[m].op # "leaf"

----------------------------------------------------------------------------
(* C4 *)

\* C4: a backward pass adds to each reachable node other than root one
\* contribution per use of it as an operand, the user's gradient times the
\* local rule, so the node ends with what it held plus their sum.
\* For x * x + x + 1 at x = 3 the value is 13 and the gradient of x is 7.
C4_FanOutSum ==
    /\ Done =>
        \A n \in Reached \ {Root} :
            nodes[n].grad = FAdd(hist.pass.pre[n], UseSum(nodes, Reached, n))
    /\ (ExampleDone(3) /\ nodes[env.x].data = FInt(3)) =>
        /\ nodes[env.f].data = FInt(13)
        /\ nodes[env.x].grad = FInt(7)

\* a finished pass in which one node is both operands of a multiply and an
\* operand of a second node, and each use contributed
C4_Witness ==
    /\ CleanDone
    /\ \E n \in Reached, m \in Reached, c \in Reached :
        /\ nodes[m].op = "mul" /\ nodes[m].prev = <<n, n>>
        /\ c # m /\ \E i \in 1 .. Len(nodes[c].prev) : nodes[c].prev[i] = n
        /\ nodes[n].data # Zero
        /\ nodes[m].grad # Zero /\ nodes[c].grad # Zero
        /\ nodes[n].grad # Zero

----------------------------------------------------------------------------
(* C5 *)

\* the loop of backward is running, or has run and nothing was called since
InPass == call = "backward"

\* the order lists the reachable nodes, each once, root first, and every
\* operand of a node after the node
C5_Order ==
    InPass =>
        /\ Len(order) = Cardinality(Reached)
        /\ {order[i] : i \in 1 .. Len(order)} = Reached
        /\ order[1] = Root
        /\ pos <= Len(order)
        /\ \A i \in 1 .. Len(order) :
            \A j \in 1 .. Len(nodes[order[i]].prev) :
                \E k \in (i + 1) .. Len(order) : order[k] = nodes[order[i]].prev[j]

\* an iteration of the loop leaves the gradient of the node it reads, and of
\* every node read before it, as it was: what was read was final
C5_ReadFinal ==
    (pc = "sweep" /\ pos' = pos + 1) =>
        \A i \in 1 .. (pos + 1) : nodes'[order[i]].grad = nodes[order[i]].grad

\* C5: for every graph the traversal of backward ends and lists every node
\* reachable from root exactly once, by identity, root first and every node
\* before its operands; the loop ends, and no node's gradient changes once
\* the loop has read it.
C5_Topological ==
    /\ []C5_Order
    /\ [][C5_ReadFinal]_vars
    /\ (pc = "sweep") ~> (pc = "idle")

\* the loop has read a node used twice, in a graph where two distinct
\* reachable nodes hold the same value
C5_Witness ==
    /\ pc = "sweep"
    /\ Len(order) >= 3
    /\ \E n \in Reached, m \in Reached : n # m /\ nodes[n].data = nodes[m].data
    /\ \E i \in 1 .. pos :
        /\ NumUses(nodes, Reached, order[i]) >= 2
        /\ nodes[order[i]].grad # Zero

----------------------------------------------------------------------------
(* C2 *)

\* backward(root) has returned, the call before it was backward(root) too,
\* and that one started from gradients that were all 0
TwoPasses == Done /\ hist.before.root = Root /\ Clean(nodes, hist.before)

\* the gradients the first of the two calls left
AfterFirst == hist.pass.pre

----------------------------------------------------------------------------
(* C6 *)

\* the gradients the first backward(r) from an all-zero graph left
FirstRun(r) == (CHOOSE f \in hist.first : f.root = r).grads

\* backward(root) has returned, zero_grad was called on every node reachable
\* from root since the backward before it, and a first run is on record
ZeroedThenDone ==
    /\ Done
    /\ Reached \subseteq hist.pass.zeroed
    /\ \E f \in hist.first : f.root = Root

\* C6: backward, then zero_grad on every node reachable from the root, then
\* backward on the root again leaves every reachable node with the gradient
\* the first run left, the values being the same.
C6_ZeroThenSame ==
    ZeroedThenDone => \A n \in Reached : nodes[n].grad = FirstRun(Root)[n]

\* the second run has returned over three or more zeroed nodes, one of them
\* derived and below root, and left a leaf a gradient that is not 0
C6_Witness ==
    /\ ZeroedThenDone
    /\ prog.nback = 2
    /\ Cardinality(Reached) >= 3
    /\ \E m \in Reached \ {Root} : nodes[m].op # "leaf"
    /\ \E n \in Reached : nodes[n].op = "leaf" /\ nodes[n].grad # Zero

----------------------------------------------------------------------------
(* C9 *)

\* C9: set_data changes the data of its node, zero_grad the grad of its
\* node, update the data of its node to data - learning_rate * grad, and
\* each leaves every other field of every node as it was; the parameter
\* loops of the network do the same to every parameter and to nothing else.
C9_Frame ==
    [][/\ \A n \in Ids(nodes), val \in LeafValues :
            SetDataCall(n, val) => nodes' = [nodes EXCEPT ![n].data = val]
       /\ \A n \in Ids(nodes) :
            ZeroGradCall(n) => nodes' = [nodes EXCEPT ![n].grad = Zero]
       /\ \A n \in Ids(nodes), learning_rate \in LearningRates :
            UpdateCall(n, learning_rate) =>
                nodes' = [nodes EXCEPT
                            ![n].data = FSub(@, FMul(learning_rate, nodes[n].grad))]
       /\ UpdateParamsCall =>
            nodes' = [n \in Ids(nodes) |->
                        IF n \in ParamSet
                        THEN [nodes[n] EXCEPT !.data = FSub(@, FMul(env.rate, nodes[n].grad))]
                        ELSE nodes[n]]
       /\ MLPZeroGradCall =>
            nodes' = [n \in Ids(nodes) |->
                        IF n \in ParamSet THEN [nodes[n] EXCEPT !.grad = Zero] ELSE nodes[n]]
      ]_vars

\* the values of m's operands give m's value
Fresh(m) ==
    nodes[m].data =
        OpForward(nodes[m].op, nodes[m].exp,
                  [j \in 1 .. Len(nodes[m].prev) |-> nodes[nodes[m].prev[j]].data])

\* update has moved the value of a node whose gradient was not 0, and a node
\* built from it still holds the value computed from the old one
C9_Witness ==
    /\ call = "update"
    /\ \E n \in hist.touched, m \in Ids(nodes) :
        /\ nodes[n].grad # Zero
        /\ \E j \in 1 .. Len(nodes[m].prev) : nodes[m].prev[j] = n
        /\ ~Fresh(m)

----------------------------------------------------------------------------
(* C10 *)

\* a derived node that set_data and update have not been called on holds the
\* value of its operation on the values its operands had when it was built
C10_ValueOnce ==
    \A m \in Ids(nodes) :
        (nodes[m].op # "leaf" /\ m \notin hist.touched) =>
            nodes[m].data = OpForward(nodes[m].op, nodes[m].exp, hist.born[m])

\* the iteration of the loop for node m adds to each operand p the sum over
\* the positions p holds of m's gradient times the local rule at the values
\* the operands hold now
C10_RuleReadsNow ==
    (pc = "sweep" /\ pos' = pos + 1) =>
        LET m == order[pos + 1] IN
        \A j \in 1 .. Len(nodes[m].prev) :
            LET p == nodes[m].prev[j] IN
            nodes'[p].grad =
                FAdd(nodes[p].grad,
                     FSum([i \in 1 .. Len(nodes[m].prev) |->
                            IF nodes[m].prev[i] = p
                            THEN FMul(nodes[m].grad, LocalRule(nodes, m, i))
                            ELSE Zero]))

\* C10: a derived node's value is computed once, when it is built, and the
\* gradient rules read the operands' values when backward runs.
C10_StaleValue == []C10_ValueOnce /\ [][C10_RuleReadsNow]_vars

\* backward has run over m = a * b after b's value was overwritten: m holds
\* the product of the old values, not of the new ones, and a, which only m
\* uses, got m's gradient times b's new value
C10_Witness ==
    /\ Done
    /\ \E m \in Reached :
        /\ nodes[m].op = "mul"
        /\ m \notin hist.touched
        /\ LET a == nodes[m].prev[1]
               b == nodes[m].prev[2]
           IN  /\ a # b
               /\ b \in hist.touched
               /\ nodes[b].data # hist.born[m][2]
               /\ ~Fresh(m)
               /\ nodes[m].grad # Zero
               /\ NumUses(nodes, Reached, a) = 1
               /\ nodes[a].grad = FAdd(hist.pass.pre[a], FMul(nodes[m].grad, nodes[b].data))
               /\ nodes[a].grad # FAdd(hist.pass.pre[a], FMul(nodes[m].grad, hist.born[m][2]))

----------------------------------------------------------------------------
(* C8 *)

\* a relu node that set_data and update have not been called on holds
\* max(a, 0) of the value a its operand had when it was built
C8_Forward ==
    \A m \in Ids(nodes) :
        (nodes[m].op = "relu" /\ m \notin hist.touched) =>
            nodes[m].data = (IF hist.born[m][1][1] > 0 THEN hist.born[m][1] ELSE Zero)

\* the iteration of the loop for a relu node adds its gradient to the
\* operand when the operand's value is above 0, and adds 0 otherwise
C8_Gate ==
    (pc = "sweep" /\ pos' = pos + 1 /\ nodes[order[pos + 1]].op = "relu") =>
        LET m == order[pos + 1]
            a == nodes[m].prev[1]
        IN  nodes'[a].grad =
                (IF nodes[a].data[1] > 0 THEN FAdd(nodes[a].grad, nodes[m].grad)
                 ELSE nodes[a].grad)

\* relu(2x - 1)^2: value 4 and gradient 8 at x = 1.5, and gradient 0 at x
\* whenever 2x - 1 <= 0
C8_Example ==
    ExampleDone(2) =>
        /\ nodes[env.x].data = <<3, 1>> =>
                nodes[env.f].data = FInt(4) /\ nodes[env.x].grad = FInt(8)
        /\ nodes[env.shifted].data[1] <= 0 => nodes[env.x].grad = Zero

\* C8: relu(a) holds max(value(a), 0) and backward pushes the gradient to a
\* when value(a) > 0 and 0 when value(a) <= 0, value(a) = 0 included; so
\* relu(2x - 1)^2 has value 4 and gradient 8 at x = 1.5 and gradient 0 when
\* 2x - 1 <= 0.
C8_Relu == []C8_Forward /\ [][C8_Gate]_vars /\ []C8_Example

\* a finished clean pass through a relu node whose operand holds exactly 0:
\* the relu node's gradient is not 0 and the operand's is
C8_Witness ==
    /\ CleanDone
    /\ \E m \in Reached :
        /\ nodes[m].op = "relu"
        /\ nodes[nodes[m].prev[1]].data = Zero
        /\ nodes[m].grad # Zero
        /\ nodes[nodes[m].prev[1]].grad = Zero

----------------------------------------------------------------------------
(* C7 *)

\* the training loop is between calls, somewhere after the mlp.zero_grad()
\* of an epoch and before its updates
InBatch == prog.client = "train" /\ pc = "idle" /\ prog.step \in {1, 2, 3}

\* d(root) / d(p) on its own: the path sum over the graph of that root
Partial(root, p) == PathSum(nodes, Reach(nodes, root), root, p)

\* C7: after mlp.zero_grad() and the backward calls of the samples of the
\* batch so far, each on its own loss, every parameter's gradient is the sum
\* over those samples of the partial derivative of the sample's loss.
C7_BatchSum ==
    InBatch =>
        \A p \in ParamSet :
            nodes[p].grad =
                FSum([j \in 1 .. Len(hist.batch) |-> Partial(hist.batch[j], p)])

\* the second epoch has differentiated all its samples, and some parameter
\* holds a nonzero sum to which two samples or more contributed
C7_Witness ==
    /\ InBatch
    /\ prog.epoch = 1
    /\ prog.step = 3
    /\ Len(hist.batch) = Len(TrainXs)
    /\ \E p \in ParamSet :
        /\ nodes[p].grad # Zero
        /\ Cardinality({j \in 1 .. Len(hist.batch) : Partial(hist.batch[j], p) # Zero}) >= 2

----------------------------------------------------------------------------
(* C3 *)

\* C3: MLP::forward on an input whose length is not the network's input
\* size fails.
C3_FailFast ==
    (call = "forward" /\ Len(ret.x) # NetIn) => ~ret.ok

====
